---- MODULE Spec2Model ----
(***************************************************************************)
(* ATLAS: geographic resolution (collectors/geo_matcher.py) and the offer  *)
(* persistence path (api/routers/database_saver.py).                       *)
(*                                                                         *)
(* Text is a sequence of one-character strings, so that the normalizer's   *)
(* regular expressions are computed character by character.  Identifiers   *)
(* of rows are positive integers; None is 0 for an identifier and the      *)
(* empty sequence / empty string for text, which Python treats as falsy    *)
(* in the same way.                                                        *)
(***************************************************************************)
EXTENDS Integers, Sequences, FiniteSets, TLC

None == 0

(***************************************************************************)
(* Characters                                                              *)
(***************************************************************************)
LowerChars ==
  <<"a","b","c","d","e","f","g","h","i","j","k","l","m","n","o","p","q","r",
    "s","t","u","v","w","x","y","z","é","è","ô">>

UpperChars ==
  <<"A","B","C","D","E","F","G","H","I","J","K","L","M","N","O","P","Q","R",
    "S","T","U","V","W","X","Y","Z","É","È","Ô">>

\* the base letter left by NFD decomposition once the combining mark is removed
BaseOfLower ==
  <<"a","b","c","d","e","f","g","h","i","j","k","l","m","n","o","p","q","r",
    "s","t","u","v","w","x","y","z","e","e","o">>

BaseOfUpper ==
  <<"A","B","C","D","E","F","G","H","I","J","K","L","M","N","O","P","Q","R",
    "S","T","U","V","W","X","Y","Z","E","E","O">>

Digits == {"0","1","2","3","4","5","6","7","8","9"}

IndexIn(c, tbl) ==
  IF \E i \in 1..Len(tbl) : tbl[i] = c
  THEN CHOOSE i \in 1..Len(tbl) : tbl[i] = c
  ELSE 0

IsDigit(c) == c \in Digits

IsSpace(c) == c = " "

\* \w of the re module: letters (accented ones included), digits, underscore
IsWord(c) == IndexIn(c, LowerChars) > 0 \/ IndexIn(c, UpperChars) > 0
             \/ IsDigit(c) \/ c = "_"

UpperChar(c) ==
  IF IndexIn(c, LowerChars) > 0 THEN UpperChars[IndexIn(c, LowerChars)] ELSE c

LowerChar(c) ==
  IF IndexIn(c, UpperChars) > 0 THEN LowerChars[IndexIn(c, UpperChars)] ELSE c

StripAccentChar(c) ==
  IF IndexIn(c, LowerChars) > 0 THEN BaseOfLower[IndexIn(c, LowerChars)]
  ELSE IF IndexIn(c, UpperChars) > 0 THEN BaseOfUpper[IndexIn(c, UpperChars)]
  ELSE c

Upper(s) == [i \in 1..Len(s) |-> UpperChar(s[i])]

Lower(s) == [i \in 1..Len(s) |-> LowerChar(s[i])]

StripAccents(s) == [i \in 1..Len(s) |-> StripAccentChar(s[i])]

Drop(s, n) == IF n >= Len(s) THEN <<>> ELSE SubSeq(s, n + 1, Len(s))

\* number of characters from position i on that satisfy the class
RECURSIVE SpanSpaces(_, _)
SpanSpaces(s, i) ==
  IF i <= Len(s) /\ IsSpace(s[i]) THEN 1 + SpanSpaces(s, i + 1) ELSE 0

RECURSIVE SpanDigits(_, _)
SpanDigits(s, i) ==
  IF i <= Len(s) /\ IsDigit(s[i]) THEN 1 + SpanDigits(s, i + 1) ELSE 0

\* str.strip()
RECURSIVE TrailingSpaces(_, _)
TrailingSpaces(s, i) ==
  IF i >= 1 /\ IsSpace(s[i]) THEN 1 + TrailingSpaces(s, i - 1) ELSE 0

Strip(s) ==
  LET a == SpanSpaces(s, 1)
  IN  IF a >= Len(s) THEN <<>>
      ELSE SubSeq(s, a + 1, Len(s) - TrailingSpaces(s, Len(s)))

\* re.sub(r'\s+', ' ', s)
RECURSIVE CollapseSpaces(_, _)
CollapseSpaces(s, i) ==
  IF i > Len(s) THEN <<>>
  ELSE IF IsSpace(s[i])
       THEN <<" ">> \o CollapseSpaces(s, i + SpanSpaces(s, i))
       ELSE <<s[i]>> \o CollapseSpaces(s, i + 1)

\* the literal p occurs in s at position i, letters compared without case
MatchesAtNoCase(s, i, p) ==
  /\ i + Len(p) - 1 <= Len(s)
  /\ \A k \in 1..Len(p) : LowerChar(s[i + k - 1]) = LowerChar(p[k])

\* re.sub(r'\b<p>', repl, s, flags=re.IGNORECASE) for a literal p that
\* starts with a letter: every occurrence, left to right, not overlapping
RECURSIVE SubWordNoCase(_, _, _, _)
SubWordNoCase(s, i, p, repl) ==
  IF i > Len(s) THEN <<>>
  ELSE IF MatchesAtNoCase(s, i, p) /\ (i = 1 \/ ~IsWord(s[i - 1]))
       THEN repl \o SubWordNoCase(s, i + Len(p), p, repl)
       ELSE <<s[i]>> \o SubWordNoCase(s, i + 1, p, repl)

\* str.replace(c, ' ')
ReplaceChar(s, c) == [i \in 1..Len(s) |-> IF s[i] = c THEN " " ELSE s[i]]

\* the four "Saint" substitutions, in the order of the code
FoldSaint(s) ==
  LET s1 == SubWordNoCase(s, 1, <<"S","a","i","n","t","-">>, <<"S","T"," ">>)
      s2 == SubWordNoCase(s1, 1, <<"S","a","i","n","t","e","-">>, <<"S","T","E"," ">>)
      s3 == SubWordNoCase(s2, 1, <<"S","t","-">>, <<"S","T"," ">>)
  IN  SubWordNoCase(s3, 1, <<"S","t","e","-">>, <<"S","T","E"," ">>)

\* re.sub(r'^\d{2,3}\s*-\s*', '', city)
StripDeptPrefix(s) ==
  LET d  == SpanDigits(s, 1)
      sp == SpanSpaces(s, d + 1)
      h  == d + sp + 1
  IN  IF d \in {2, 3} /\ h <= Len(s) /\ s[h] = "-"
      THEN Drop(s, h + SpanSpaces(s, h + 1))
      ELSE s

Arrondissement == <<"a","r","r","o","n","d","i","s","s","e","m","e","n","t">>

OrdinalChars == {"e", "è", "r", "E", "È", "R"}

RECURSIVE SpanOrdinal(_, _)
SpanOrdinal(s, i) ==
  IF i <= Len(s) /\ s[i] \in OrdinalChars THEN 1 + SpanOrdinal(s, i + 1) ELSE 0

\* \s+(\d{1,2})[eèr]{1,2}\s+arrondissement matches s from position i
\* (the character after group 1); the result is the digits of group 2, or <<>>
OrdinalTailAt(s, i) ==
  LET sp  == SpanSpaces(s, i)
      d   == SpanDigits(s, i + sp)
      o   == SpanOrdinal(s, i + sp + d)
      sp2 == SpanSpaces(s, i + sp + d + o)
  IN  IF /\ sp >= 1
         /\ d \in {1, 2}
         /\ o \in {1, 2}
         /\ sp2 >= 1
         /\ MatchesAtNoCase(s, i + sp + d + o + sp2, Arrondissement)
      THEN SubSeq(s, i + sp, i + sp + d - 1)
      ELSE <<>>

\* str.zfill(2)
Zfill2(ds) == IF Len(ds) < 2 THEN <<"0">> \o ds ELSE ds

\* re.search(r'^(.+?)\s+(\d{1,2})[eèr]{1,2}\s+arrondissement', city, I) and
\* the rewrite to "<ville> <numero>": group 1 is the shortest prefix that works
ExpandArrondissement(s) ==
  LET ends == {i \in 1..Len(s) : OrdinalTailAt(s, i + 1) # <<>>}
  IN  IF ends = {} THEN s
      ELSE LET i == CHOOSE m \in ends : \A n \in ends : m <= n
           IN  Strip(SubSeq(s, 1, i)) \o <<" ">> \o Zfill2(OrdinalTailAt(s, i + 1))

clean_city_name(city) ==
  IF city = <<>> THEN <<>>
  ELSE LET c1 == StripDeptPrefix(city)
           c2 == ExpandArrondissement(c1)
           c3 == FoldSaint(c2)
           c4 == CollapseSpaces(c3, 1)
       IN  Upper(Strip(c4))

normalize_for_search(city) ==
  IF city = <<>> THEN <<>>
  ELSE LET c1 == FoldSaint(city)
           c2 == StripAccents(c1)
           c3 == ReplaceChar(c2, "-")
           c4 == ReplaceChar(c3, "'")
           c5 == CollapseSpaces(c4, 1)
       IN  Strip(Lower(c5))

(***************************************************************************)
(* Commune reference table (ref_communes_france), immutable after load.    *)
(* Names are in the postal dataset's form: upper case, "ST", "PARIS 01".   *)
(***************************************************************************)
PopNull == -1

Sete == <<"S","è","t","e">>

SaintDenis == <<"S","a","i","n","t","-","D","e","n","i","s">>

Paris == <<"P","a","r","i","s">>

Ys == <<"Y","s">>

Communes ==
  { [commune_id |-> 1, code_postal |-> "34200", population |-> 44000,
     nom_commune |-> <<"S","E","T","E">>],
    [commune_id |-> 2, code_postal |-> "93200", population |-> 110000,
     nom_commune |-> <<"S","T"," ","D","E","N","I","S">>],
    [commune_id |-> 3, code_postal |-> "97400", population |-> 150000,
     nom_commune |-> <<"S","T"," ","D","E","N","I","S">>],
    [commune_id |-> 4, code_postal |-> "75001", population |-> PopNull,
     nom_commune |-> <<"P","A","R","I","S"," ","0","1">>],
    [commune_id |-> 5, code_postal |-> "11310", population |-> PopNull,
     nom_commune |-> <<"S","T"," ","D","E","N","I","S">>] }

\* LOWER(REPLACE(REPLACE(TRANSLATE(nom_commune, accents, plain), '-', ' '), quote, ' '))
SqlNormName(nom) == Lower(ReplaceChar(ReplaceChar(StripAccents(nom), "-"), "'"))

\* ORDER BY population DESC NULLS LAST LIMIT 1: the rows that may come first
TopByPopulation(rows) ==
  {r \in rows : \A q \in rows :
      \/ q.population = PopNull
      \/ (r.population # PopNull /\ r.population >= q.population)}

\* result.scalar() of a LIMIT 1 query: the id of any row that may come first,
\* None when the query selects no row
Scalar(rows) == IF rows = {} THEN {None} ELSE {r.commune_id : r \in rows}

Tier1AnyPostal(city_clean, city_normalized, postal_code) ==
  Scalar({r \in Communes :
            \/ Lower(r.nom_commune) = Lower(city_clean)
            \/ SqlNormName(r.nom_commune) = city_normalized})

\* STRATEGIE 1: postal code and (exact name or normalized name); no ORDER BY
Tier1(city_clean, city_normalized, postal_code) ==
  Scalar({r \in Communes :
            /\ r.code_postal = postal_code
            /\ \/ Lower(r.nom_commune) = Lower(city_clean)
               \/ SqlNormName(r.nom_commune) = city_normalized})

Tier2Unordered(city_normalized) ==
  Scalar({r \in Communes : SqlNormName(r.nom_commune) = city_normalized})

\* STRATEGIE 2: normalized name alone, most populated first
Tier2(city_normalized) ==
  Scalar(TopByPopulation({r \in Communes :
            SqlNormName(r.nom_commune) = city_normalized}))

IsPrefix(p, s) == Len(p) <= Len(s) /\ SubSeq(s, 1, Len(p)) = p

\* STRATEGIE 3: the store's find_commune(city [, postal]) function
find_commune(city, postal_code) ==
  Scalar(TopByPopulation({r \in Communes :
            /\ city # <<>>
            /\ IsPrefix(Upper(city), Upper(r.nom_commune))
            /\ (postal_code # "" => r.code_postal = postal_code)}))

\* the statements of a trace that returned before the engine raised
Prefixes(tiers) == {SubSeq(tiers, 1, n) : n \in 0..(Len(tiers) - 1)}

ResolveTraceNameFirst(city_clean, postal_code, store_error) ==
  LET city_normalized == normalize_for_search(city_clean)
      t1 == Tier1(city_clean, city_normalized, postal_code)
      t2 == Tier2(city_normalized)
      t3 == find_commune(city_clean, postal_code)
  IN  {[value |-> c, tiers |-> <<2>>] : c \in t2 \ {None}}
      \cup (IF None \in t2
            THEN {[value |-> c, tiers |-> <<2, 1>>] : c \in t1 \ {None}}
            ELSE {})
      \cup (IF None \in t2 /\ None \in t1
            THEN {[value |-> c, tiers |-> <<2, 1, 3>>] : c \in t3}
            ELSE {})

\* The body of find_commune_id after the cache lookup: the values it may
\* compute, each with the tiers whose statement returned, in order.
\* store_error: the engine raises at connect() or in one of the statements;
\* the except branch turns it into None.
ResolveTrace(city_clean, postal_code, store_error) ==
  LET city_normalized == normalize_for_search(city_clean)
      first == IF postal_code # "" THEN <<1>> ELSE <<>>
      t1 == IF postal_code # "" THEN Tier1(city_clean, city_normalized, postal_code)
            ELSE {None}
      t2 == Tier2(city_normalized)
      t3 == find_commune(city_clean, postal_code)
      answered ==
        {[value |-> c, tiers |-> first] : c \in t1 \ {None}}
        \cup (IF None \in t1
              THEN {[value |-> c, tiers |-> first \o <<2>>] : c \in t2 \ {None}}
              ELSE {})
        \cup (IF None \in t1 /\ None \in t2
              THEN {[value |-> c, tiers |-> first \o <<2, 3>>] : c \in t3}
              ELSE {})
  IN  IF store_error
      THEN {[value |-> None, tiers |-> p] : p \in UNION {Prefixes(t.tiers) : t \in answered}}
      ELSE answered

\* the values find_commune_id may compute after the cache lookup
ResolveTiers(city_clean, postal_code, store_error) ==
  {t.value : t \in ResolveTrace(city_clean, postal_code, store_error)}

CacheKey(city_name, postal_code) == <<clean_city_name(city_name), postal_code>>

\* find_commune_id on a matcher whose cache is empty
FindCold(city_name, postal_code, store_error) ==
  IF city_name = <<>> THEN {None}
  ELSE ResolveTiers(clean_city_name(city_name), postal_code, store_error)

(***************************************************************************)
(* Inputs of save_offer_to_database: the scraped record (raw_data) and     *)
(* the NLP results.  Embedding vectors are named; their cosine similarity  *)
(* is given in millionths.                                                 *)
(***************************************************************************)
MaxSaves == 3

Million == 1000000

SimilarityThreshold == 950000

NoneNum == -1

Vectors == {"v1", "v2", "v3"}

\* 1 - (a <=> b), symmetric
Similarity(a, b) ==
  IF a = b THEN Million
  ELSE IF {a, b} = {"v1", "v2"} THEN 950000
  ELSE IF {a, b} = {"v1", "v3"} THEN 949999
  ELSE 970000

\* dict.get(key, default)
Get(d, key, default) == IF key \in DOMAIN d THEN d[key] ELSE default

\* the record a collector hands over; v selects one of two contents
RawData(eid, v, city, postal) ==
  [ external_id          |-> eid,
    title                |-> IF v = 1 THEN "title1" ELSE "title2",
    description          |-> IF v = 1 THEN "descr1" ELSE "descr2",
    url                  |-> IF v = 1 THEN "url1" ELSE "url2",
    company_name         |-> IF v = 1 THEN "company1" ELSE "company2",
    source               |-> IF v = 1 THEN "france_travail" ELSE "wttj",
    published_date       |-> IF v = 1 THEN "2024-01-15" ELSE "",
    location_city        |-> city,
    location_postal_code |-> postal ]

\* _predict_topic: the classifier's answer for a title, all None when it fails
PredictTopic(title) ==
  IF title = "title1"
  THEN [topic_id |-> 1, topic_label |-> "data", topic_confidence |-> 90]
  ELSE [topic_id |-> None, topic_label |-> "", topic_confidence |-> NoneNum]

NlpResults(v, vec) ==
  [ final |->
      [ embedding_vector    |-> vec,
        embedding_model     |-> IF v = 1 THEN "model1" ELSE "model2",
        description_cleaned |-> IF v = 1 THEN "clean1" ELSE "clean2",
        profile_category    |-> IF v = 1 THEN "Data Analyst" ELSE "Généraliste",
        profile_confidence  |-> IF v = 1 THEN 80 ELSE 55,
        education_level     |-> IF v = 1 THEN 5 ELSE NoneNum,
        education_type      |-> IF v = 1 THEN "Master" ELSE "",
        remote_possible     |-> v = 1,
        remote_days         |-> IF v = 1 THEN 2 ELSE NoneNum,
        remote_percentage   |-> IF v = 1 THEN 40 ELSE NoneNum,
        contract_types      |-> IF v = 1 THEN <<"CDI">> ELSE <<"CDD">> ],
    skills |->
      [ all_tech_skills |-> IF v = 1 THEN <<"python", "sql">> ELSE <<"python", "python">>,
        soft_skills     |-> IF v = 1 THEN <<"teamwork">> ELSE <<"python", "sql">> ],
    info |->
      [ salary     |-> IF v = 1 THEN [min |-> 30000, max |-> 40000]
                       ELSE [min |-> NoneNum, max |-> NoneNum],
        experience |-> IF v = 1 THEN [min |-> 2, max |-> 5]
                       ELSE [min |-> 1, max |-> NoneNum] ],
    category_info |-> [ profile_score |-> IF v = 1 THEN 7 ELSE 0 ] ]

Request(eid, v, vec, city, postal) ==
  [raw |-> RawData(eid, v, city, postal), nlp |-> NlpResults(v, vec)]

Requests ==
  { Request(c[1], c[2], c[3], Sete, "34200") :
      c \in { <<"e1", 1, "v1">>, <<"e1", 2, "v2">>, <<"e1", 2, "v3">>, <<"e1", 2, "">>,
              <<"e2", 1, "v3">>, <<"e2", 2, "v2">>, <<"e2", 1, "">> } }
  \cup { Request("e1", 1, "v1", <<>>, ""), Request("e2", 1, "", Ys, "99999") }

(***************************************************************************)
(* The database.  committed is the durable state; db is what the open      *)
(* connection sees (committed plus the uncommitted writes of the current   *)
(* transaction).  Saves run one at a time, each on its own connection.     *)
(***************************************************************************)
VARIABLES
  committed,      \* the tables as committed
  db,             \* the tables as seen inside the open transaction
  communeNotNull, \* whether fact_job_offers.commune_id is declared NOT NULL
  pc,             \* position inside save_offer_to_database, "idle" between calls
  req,            \* arguments of the running call
  loc,            \* its local variables
  txAborted,      \* the server has marked the open transaction as failed
  result,         \* the dictionary returned by the last call
  nSaves,         \* number of calls made
  hist,           \* what the running (or last) call did
  cache,          \* GeoMatcher.cache of a long-lived matcher: key -> commune_id
  geoCall,        \* the last find_commune_id call on it and what it returned
  nLookups,       \* number of find_commune_id calls made on it
  rawCity,        \* the string handed to the city name normalizer
  cleaned,        \* clean_city_name applied to it once, twice, ...
  searched,       \* normalize_for_search applied to it once, twice, ...
  dimUnique,      \* whether the dimension tables declare their natural key UNIQUE
  dimRows,        \* the committed rows of the dimension tables (two connections)
  dimPending,     \* per connection: rows inserted and not yet committed
  dimPc,          \* per connection: position in the get-or-create helpers
  batch,          \* the list handed to DBInserterV2.insert_batch
  attempts,       \* per offer attempted so far: what insert_offer did
  stats           \* the counters of insert_batch

saveVars == <<committed, db, communeNotNull, pc, req, loc, txAborted, result, nSaves, hist>>

geoVars == <<cache, geoCall, nLookups>>

normVars == <<rawCity, cleaned, searched>>

raceVars == <<dimUnique, dimRows, dimPending, dimPc>>

batchVars == <<batch, attempts, stats>>

EmptyTables ==
  [ dim_sources        |-> {},
    dim_dates          |-> {},
    dim_job_categories |-> {},
    fact_job_offers    |-> {},
    dim_skills         |-> {},
    fact_offer_skills  |-> {},
    job_embeddings     |-> {} ]

NoDuplicate == [offer_id |-> None, similarity |-> 0, title |-> ""]

NoLocals ==
  [ source_id |-> None, date_id |-> None, commune_id |-> None,
    job_category_id |-> None, offer_id |-> None, duplicate_check |-> NoDuplicate ]

NoResult == [kind |-> "none"]

\* the find_commune_id call of a save: not made
NoLookup == [called |-> FALSE, city_name |-> <<>>, postal_code |-> "", tiers |-> <<>>]

NoHist ==
  [ atStart |-> EmptyTables, trail |-> <<>>, dupError |-> "none", cause |-> "none",
    lookup |-> NoLookup ]

RECURSIVE SetMax(_)
SetMax(S) ==
  IF S = {} THEN 0
  ELSE LET x == CHOOSE y \in S : TRUE
           m == SetMax(S \ {x})
       IN  IF x > m THEN x ELSE m

\* the next value of a table's serial key
NextId(rows, key) == 1 + SetMax({r[key] : r \in rows})

vars == <<saveVars, geoVars, normVars, raceVars, batchVars>>

EmptyCache == [k \in {} |-> None]

NoGeoCall ==
  [ city_name |-> <<>>, postal_code |-> "", store_error |-> FALSE,
    returned |-> None, hit |-> FALSE, queried |-> FALSE, tiers |-> <<>> ]

InitSave ==
  /\ committed = EmptyTables
  /\ db = EmptyTables
  /\ communeNotNull \in BOOLEAN
  /\ pc = "idle"
  /\ req = Request("e1", 1, "v1", Sete, "34200")
  /\ loc = NoLocals
  /\ txAborted = FALSE
  /\ result = NoResult
  /\ nSaves = 0
  /\ hist = NoHist

InitGeo ==
  /\ cache = EmptyCache
  /\ geoCall = NoGeoCall
  /\ nLookups = 0

NoCity ==
  /\ rawCity = <<>>
  /\ cleaned = <<>>
  /\ searched = <<>>

Connections == {1, 2}

NoRace ==
  /\ dimUnique = FALSE
  /\ dimRows = {}
  /\ dimPending = [p \in Connections |-> {}]
  /\ dimPc = [p \in Connections |-> [dim |-> 0, step |-> "idle"]]

NoStats ==
  [ total |-> 0, inserted |-> 0, duplicates |-> 0, skipped |-> 0, errors |-> 0,
    communes_not_found |-> 0 ]

NoBatch ==
  /\ batch = <<>>
  /\ attempts = <<>>
  /\ stats = NoStats

Init == InitSave /\ InitGeo /\ NoCity /\ NoRace /\ NoBatch

Log(step) == [hist EXCEPT !.trail = Append(@, step)]

(***************************************************************************)
(* save_offer_to_database, statement by statement                          *)
(***************************************************************************)
\* Start with the dimension resolution placed ahead of the duplicate check
StartDimensionsFirst(r) ==
  /\ pc = "idle"
  /\ nSaves < MaxSaves
  /\ nSaves' = nSaves + 1
  /\ req' = r
  /\ loc' = NoLocals
  /\ db' = committed
  /\ txAborted' = FALSE
  /\ result' = NoResult
  /\ hist' = [NoHist EXCEPT !.atStart = committed]
  /\ pc' = "source"
  /\ UNCHANGED <<committed, communeNotNull>>
  /\ UNCHANGED <<geoVars, normVars, raceVars, batchVars>>

\* entry: psycopg2.connect opens a connection, whose transaction starts on
\* the committed state
Start(r) ==
  /\ pc = "idle"
  /\ nSaves < MaxSaves
  /\ nSaves' = nSaves + 1
  /\ req' = r
  /\ loc' = NoLocals
  /\ db' = committed
  /\ txAborted' = FALSE
  /\ result' = NoResult
  /\ hist' = [NoHist EXCEPT !.atStart = committed]
  /\ pc' = "duplicate_check"
  /\ UNCHANGED <<committed, communeNotNull>>
  /\ UNCHANGED <<geoVars, normVars, raceVars, batchVars>>

\* DuplicateMatches with the comparison > in place of >=
DuplicateMatchesStrict(tables, embedding_vector, threshold) ==
  LET joined == { [offer_id   |-> o.offer_id,
                   similarity |-> Similarity(je.embedding, embedding_vector),
                   title      |-> o.title] :
                  <<je, o>> \in { p \in tables.job_embeddings \X tables.fact_job_offers :
                                    p[1].offer_id = p[2].offer_id } }
      kept == { m \in joined : m.similarity > threshold }
  IN  { m \in kept : \A n \in kept : m.similarity >= n.similarity }

\* the rows the similarity query may return first: embeddings joined with
\* their offers, similarity >= threshold, ORDER BY similarity DESC LIMIT 1
DuplicateMatches(tables, embedding_vector, threshold) ==
  LET joined == { [offer_id   |-> o.offer_id,
                   similarity |-> Similarity(je.embedding, embedding_vector),
                   title      |-> o.title] :
                  <<je, o>> \in { p \in tables.job_embeddings \X tables.fact_job_offers :
                                    p[1].offer_id = p[2].offer_id } }
      kept == { m \in joined : m.similarity >= threshold }
  IN  { m \in kept : \A n \in kept : m.similarity >= n.similarity }

\* _check_duplicate_by_embedding: the values it may return.  error is "none",
\* "client" (raised before the statement reaches the server) or "server"
check_duplicate_by_embedding(tables, embedding_vector, threshold, error) ==
  IF error # "none" THEN {NoDuplicate}
  ELSE IF DuplicateMatches(tables, embedding_vector, threshold) = {} THEN {NoDuplicate}
  ELSE DuplicateMatches(tables, embedding_vector, threshold)

DuplicateResult(d) ==
  [ kind |-> "duplicate", success |-> FALSE, duplicate |-> TRUE,
    existing_offer_id |-> d.offer_id, similarity |-> d.similarity,
    existing_title |-> d.title ]

FailureResult(cause) ==
  [ kind |-> "failure", success |-> FALSE, duplicate |-> FALSE, message |-> cause ]

SuccessResult(offer_id) ==
  [ kind |-> "success", success |-> TRUE, duplicate |-> FALSE, offer_id |-> offer_id ]

\* CheckDuplicate without the early return: a duplicate is logged and the
\* save goes on
CheckDuplicateNoReturn ==
  /\ pc = "duplicate_check"
  /\ LET embedding_vector == req.nlp.final.embedding_vector
     IN  IF embedding_vector = ""
         THEN /\ hist' = hist
              /\ UNCHANGED <<loc, txAborted>>
         ELSE \E error \in {"none", "client", "server"} :
              \E d \in check_duplicate_by_embedding(db, embedding_vector,
                                                    SimilarityThreshold, error) :
                /\ loc' = [loc EXCEPT !.duplicate_check = d]
                /\ txAborted' = (error = "server")
                /\ hist' = [Log("duplicate_check") EXCEPT !.dupError = error]
  /\ pc' = "source"
  /\ UNCHANGED <<committed, db, communeNotNull, req, result, nSaves>>
  /\ UNCHANGED <<geoVars, normVars, raceVars, batchVars>>

\* lines 66-89: the duplicate check, and the duplicate return
CheckDuplicate ==
  /\ pc = "duplicate_check"
  /\ LET embedding_vector == req.nlp.final.embedding_vector
     IN  IF embedding_vector = ""
         THEN /\ pc' = "source"
              /\ hist' = hist
              /\ UNCHANGED <<loc, txAborted, result>>
         ELSE \E error \in {"none", "client", "server"} :
              \E d \in check_duplicate_by_embedding(db, embedding_vector,
                                                    SimilarityThreshold, error) :
                /\ loc' = [loc EXCEPT !.duplicate_check = d]
                /\ txAborted' = (error = "server")
                /\ hist' = [Log("duplicate_check") EXCEPT !.dupError = error]
                /\ IF d # NoDuplicate
                   THEN /\ result' = DuplicateResult(d)
                        /\ pc' = "idle"
                   ELSE /\ result' = result
                        /\ pc' = "source"
  /\ UNCHANGED <<committed, db, communeNotNull, req, nSaves>>
  /\ UNCHANGED <<geoVars, normVars, raceVars, batchVars>>

SourceName == Get(req.raw, "source", "unknown")

\* _get_or_create_source: SELECT, else INSERT ... RETURNING and conn.commit()
GetOrCreateSource ==
  /\ pc = "source"
  /\ ~txAborted
  /\ LET found == {r \in db.dim_sources : r.source_name = SourceName}
         row   == [ source_id   |-> NextId(db.dim_sources, "source_id"),
                    source_name |-> SourceName,
                    source_type |-> IF SourceName = "france_travail" THEN "api" ELSE "scraping",
                    is_official |-> SourceName = "france_travail" ]
         after == [db EXCEPT !.dim_sources = @ \cup {row}]
     IN  IF found # {}
         THEN /\ \E r \in found : loc' = [loc EXCEPT !.source_id = r.source_id]
              /\ UNCHANGED <<db, committed>>
         ELSE /\ db' = after
              /\ committed' = after
              /\ loc' = [loc EXCEPT !.source_id = row.source_id]
  /\ pc' = "date"
  /\ hist' = Log("source")
  /\ UNCHANGED <<communeNotNull, req, txAborted, result, nSaves>>
  /\ UNCHANGED <<geoVars, normVars, raceVars, batchVars>>

\* datetime.fromisoformat(s.replace("Z", "+00:00")).date(), "" when s is empty
\* or does not parse
ParseIsoDate(s) ==
  IF s \in {"2024-01-15", "2024-01-15T08:30:00Z"} THEN "2024-01-15" ELSE ""

\* _get_or_create_date
GetOrCreateDate ==
  /\ pc = "date"
  /\ LET pub_date == ParseIsoDate(Get(req.raw, "published_date", ""))
         found    == {r \in db.dim_dates : r.full_date = pub_date}
         row      == [ date_id   |-> NextId(db.dim_dates, "date_id"),
                       full_date |-> pub_date ]
         after    == [db EXCEPT !.dim_dates = @ \cup {row}]
     IN  IF pub_date = ""
         THEN /\ loc' = [loc EXCEPT !.date_id = None]
              /\ UNCHANGED <<db, committed>>
         ELSE IF found # {}
         THEN /\ \E r \in found : loc' = [loc EXCEPT !.date_id = r.date_id]
              /\ UNCHANGED <<db, committed>>
         ELSE /\ db' = after
              /\ committed' = after
              /\ loc' = [loc EXCEPT !.date_id = row.date_id]
  /\ pc' = "commune"
  /\ hist' = Log("date")
  /\ UNCHANGED <<communeNotNull, req, txAborted, result, nSaves>>
  /\ UNCHANGED <<geoVars, normVars, raceVars, batchVars>>

\* _get_commune_id, on a GeoMatcher built for this call (empty cache); the
\* postal code is read under the key "location_code_postal"
GetCommuneId ==
  /\ pc = "commune"
  /\ LET city        == Strip(Get(req.raw, "location_city", <<>>))
         postal_code == Get(req.raw, "location_code_postal", "")
     IN  IF city = <<>>
         THEN /\ loc' = [loc EXCEPT !.commune_id = None]
              /\ hist' = Log("commune")
         ELSE \E store_error \in BOOLEAN :
              \E t \in ResolveTrace(clean_city_name(city), postal_code, store_error) :
                /\ loc' = [loc EXCEPT !.commune_id = t.value]
                /\ hist' = [Log("commune") EXCEPT
                              !.lookup = [ called      |-> TRUE,
                                           city_name   |-> city,
                                           postal_code |-> postal_code,
                                           tiers       |-> t.tiers ]]
  /\ pc' = "category"
  /\ UNCHANGED <<committed, db, communeNotNull, req, txAborted, result, nSaves>>
  /\ UNCHANGED <<geoVars, normVars, raceVars, batchVars>>

ProfileCategory == Get(req.nlp.final, "profile_category", "Généraliste")

\* profile_category.upper().replace(" ", "_")
CategoryCode(name) == IF name = "Data Analyst" THEN "DATA_ANALYST" ELSE name

\* _get_or_create_job_category
GetOrCreateJobCategory ==
  /\ pc = "category"
  /\ LET found == {r \in db.dim_job_categories : r.category_name = ProfileCategory}
         row   == [ job_category_id |-> NextId(db.dim_job_categories, "job_category_id"),
                    category_name   |-> ProfileCategory,
                    category_code   |-> CategoryCode(ProfileCategory),
                    level           |-> 1 ]
         after == [db EXCEPT !.dim_job_categories = @ \cup {row}]
     IN  IF ProfileCategory = "" \/ ProfileCategory = "Généraliste"
         THEN /\ loc' = [loc EXCEPT !.job_category_id = None]
              /\ UNCHANGED <<db, committed>>
         ELSE IF found # {}
         THEN /\ \E r \in found : loc' = [loc EXCEPT !.job_category_id = r.job_category_id]
              /\ UNCHANGED <<db, committed>>
         ELSE /\ db' = after
              /\ committed' = after
              /\ loc' = [loc EXCEPT !.job_category_id = row.job_category_id]
  /\ pc' = "offer"
  /\ hist' = Log("category")
  /\ UNCHANGED <<communeNotNull, req, txAborted, result, nSaves>>
  /\ UNCHANGED <<geoVars, normVars, raceVars, batchVars>>

\* _extract_experience_years
ExtractExperienceYears(e) ==
  IF e.min # NoneNum /\ e.max # NoneNum THEN (e.min + e.max) \div 2
  ELSE IF e.min # NoneNum THEN e.min
  ELSE NoneNum

\* the columns that ON CONFLICT (external_id) DO UPDATE SET overwrites
\* (processing_date, a clock value, is left out)
MutableColumns ==
  { "description_cleaned", "salary_min", "salary_max", "profile_category",
    "profile_confidence", "profile_score", "education_level", "education_type",
    "remote_possible", "remote_days", "remote_percentage", "experience_years",
    "topic_id", "topic_label", "topic_confidence", "skills_extracted", "processed" }

\* the keyword arguments save_offer_to_database passes to _insert_or_update_offer,
\* as the row proposed for insertion (lines 113-173)
ProposedOffer(r, l) ==
  LET final == r.nlp.final
      topic == PredictTopic(Get(r.raw, "title", ""))
  IN  [ source_id           |-> l.source_id,
        date_id             |-> l.date_id,
        commune_id          |-> l.commune_id,
        job_category_id     |-> l.job_category_id,
        external_id         |-> Get(r.raw, "external_id", ""),
        title               |-> Get(r.raw, "title", ""),
        description         |-> Get(r.raw, "description", ""),
        description_cleaned |-> Get(final, "description_cleaned", ""),
        url                 |-> Get(r.raw, "url", ""),
        company_name        |-> Get(r.raw, "company_name", ""),
        contract_type       |-> Get(final, "contract_types", <<"">>)[1],
        salary_min          |-> r.nlp.info.salary.min,
        salary_max          |-> r.nlp.info.salary.max,
        published_date      |-> ParseIsoDate(Get(r.raw, "published_date", "")),
        experience_years    |-> ExtractExperienceYears(r.nlp.info.experience),
        profile_category    |-> Get(final, "profile_category", ""),
        profile_confidence  |-> Get(final, "profile_confidence", NoneNum),
        profile_score       |-> Get(r.nlp.category_info, "profile_score", 0),
        education_level     |-> Get(final, "education_level", NoneNum),
        education_type      |-> Get(final, "education_type", ""),
        remote_possible     |-> Get(final, "remote_possible", FALSE),
        remote_days         |-> Get(final, "remote_days", NoneNum),
        remote_percentage   |-> Get(final, "remote_percentage", NoneNum),
        topic_id            |-> topic.topic_id,
        topic_label         |-> topic.topic_label,
        topic_confidence    |-> topic.topic_confidence,
        skills_extracted    |-> r.nlp.skills.all_tech_skills \o r.nlp.skills.soft_skills,
        processed           |-> TRUE ]

WithOfferId(row, id) ==
  [c \in DOMAIN row \cup {"offer_id"} |-> IF c = "offer_id" THEN id ELSE row[c]]

\* UpdatedOffer with title, description and url in the SET list as well
UpdatedOfferWithProvenance(old, proposed) ==
  [c \in DOMAIN old |->
     IF c \in MutableColumns \cup {"title", "description", "url"}
     THEN proposed[c] ELSE old[c]]

\* DO UPDATE SET: the stored row with the listed columns taken from EXCLUDED
UpdatedOffer(old, proposed) ==
  [c \in DOMAIN old |-> IF c \in MutableColumns THEN proposed[c] ELSE old[c]]

\* insert_or_update_offer without the ON CONFLICT clause and without a
\* unique index on external_id: a plain INSERT
insert_offer_always(offers, proposed) ==
  [ table    |-> offers \cup {WithOfferId(proposed, NextId(offers, "offer_id"))},
    offer_id |-> NextId(offers, "offer_id") ]

\* _insert_or_update_offer: INSERT ... ON CONFLICT (external_id) DO UPDATE
\* ... RETURNING offer_id; gives the table and the returned id
insert_or_update_offer(offers, proposed) ==
  LET conflict == {o \in offers : o.external_id = proposed.external_id}
      new_id   == NextId(offers, "offer_id")
  IN  IF conflict = {}
      THEN [ table    |-> offers \cup {WithOfferId(proposed, new_id)},
             offer_id |-> new_id ]
      ELSE [ table    |-> (offers \ conflict)
                          \cup {UpdatedOffer(o, proposed) : o \in conflict},
             offer_id |-> (CHOOSE o \in conflict : TRUE).offer_id ]

InsertOrUpdateOfferThenCommit ==
  /\ pc = "offer"
  /\ ~(communeNotNull /\ loc.commune_id = None)
  /\ LET res == insert_or_update_offer(db.fact_job_offers, ProposedOffer(req, loc))
     IN  /\ db' = [db EXCEPT !.fact_job_offers = res.table]
         /\ loc' = [loc EXCEPT !.offer_id = res.offer_id]
  /\ pc' = "commit"
  /\ hist' = Log("offer")
  /\ UNCHANGED <<committed, communeNotNull, req, txAborted, result, nSaves>>
  /\ UNCHANGED <<geoVars, normVars, raceVars, batchVars>>

InsertOrUpdateOffer ==
  /\ pc = "offer"
  /\ ~(communeNotNull /\ loc.commune_id = None)
  /\ LET res == insert_or_update_offer(db.fact_job_offers, ProposedOffer(req, loc))
     IN  /\ db' = [db EXCEPT !.fact_job_offers = res.table]
         /\ loc' = [loc EXCEPT !.offer_id = res.offer_id]
  /\ pc' = "skills"
  /\ hist' = Log("offer")
  /\ UNCHANGED <<committed, communeNotNull, req, txAborted, result, nSaves>>
  /\ UNCHANGED <<geoVars, normVars, raceVars, batchVars>>

RECURSIVE InsertSkillsUpdatingCategory(_, _, _)
InsertSkillsUpdatingCategory(skills, names, category) ==
  IF names = <<>> THEN skills
  ELSE LET name == Head(names)
           next == IF \E s \in skills : s.skill_name = name
                   THEN {IF s.skill_name = name
                         THEN [s EXCEPT !.skill_category = category]
                         ELSE s : s \in skills}
                   ELSE skills \cup {[ skill_id       |-> NextId(skills, "skill_id"),
                                       skill_name     |-> name,
                                       skill_category |-> category ]}
       IN  InsertSkillsUpdatingCategory(next, Tail(names), category)

\* INSERT INTO dim_skills ... ON CONFLICT (skill_name) DO NOTHING, for each name
RECURSIVE InsertSkills(_, _, _)
InsertSkills(skills, names, category) ==
  IF names = <<>> THEN skills
  ELSE LET name == Head(names)
           next == IF \E s \in skills : s.skill_name = name
                   THEN skills
                   ELSE skills \cup {[ skill_id       |-> NextId(skills, "skill_id"),
                                       skill_name     |-> name,
                                       skill_category |-> category ]}
       IN  InsertSkills(next, Tail(names), category)

RECURSIVE LinkSkillRowsAlways(_, _, _)
LinkSkillRowsAlways(links, offer_id, skill_ids) ==
  IF skill_ids = {} THEN links
  ELSE LET sid == CHOOSE x \in skill_ids : \A y \in skill_ids : x <= y
       IN  LinkSkillRowsAlways(links \cup {[ link_id  |-> NextId(links, "link_id"),
                                            offer_id |-> offer_id,
                                            skill_id |-> sid ]},
                               offer_id, skill_ids \ {sid})

\* INSERT INTO fact_offer_skills SELECT offer_id, skill_id FROM dim_skills WHERE
\* skill_name = name ON CONFLICT (offer_id, skill_id) DO NOTHING, for one name
RECURSIVE LinkSkillRows(_, _, _)
LinkSkillRows(links, offer_id, skill_ids) ==
  IF skill_ids = {} THEN links
  ELSE LET sid  == CHOOSE x \in skill_ids : \A y \in skill_ids : x <= y
           next == IF \E k \in links : k.offer_id = offer_id /\ k.skill_id = sid
                   THEN links
                   ELSE links \cup {[ link_id  |-> NextId(links, "link_id"),
                                      offer_id |-> offer_id,
                                      skill_id |-> sid ]}
       IN  LinkSkillRows(next, offer_id, skill_ids \ {sid})

LinkSkillsFirstOnly(links, skills, offer_id, names) ==
  IF names = <<>> THEN links
  ELSE LinkSkillRows(links, offer_id,
                     {s.skill_id : s \in {t \in skills : t.skill_name = Head(names)}})

RECURSIVE LinkSkills(_, _, _, _)
LinkSkills(links, skills, offer_id, names) ==
  IF names = <<>> THEN links
  ELSE LinkSkills(
         LinkSkillRows(links, offer_id,
                       {s.skill_id : s \in {t \in skills : t.skill_name = Head(names)}}),
         skills, offer_id, Tail(names))

\* _insert_skills_and_relations, first two loops: the technical names, then
\* the soft names, into dim_skills
InsertSkillRows ==
  /\ pc = "skills"
  /\ LET tech == req.nlp.skills.all_tech_skills
         soft == req.nlp.skills.soft_skills
     IN  db' = [db EXCEPT !.dim_skills =
                  InsertSkills(InsertSkills(@, tech, "technical"), soft, "soft")]
  /\ pc' = "links"
  /\ hist' = Log("skills")
  /\ UNCHANGED <<committed, communeNotNull, req, loc, txAborted, result, nSaves>>
  /\ UNCHANGED <<geoVars, normVars, raceVars, batchVars>>

\* _insert_skills_and_relations, third loop: one link per name of
\* tech_skills + soft_skills
InsertSkillLinks ==
  /\ pc = "links"
  /\ LET tech == req.nlp.skills.all_tech_skills
         soft == req.nlp.skills.soft_skills
     IN  db' = [db EXCEPT !.fact_offer_skills =
                  LinkSkills(@, db.dim_skills, loc.offer_id, tech \o soft)]
  /\ pc' = "embedding"
  /\ hist' = Log("links")
  /\ UNCHANGED <<committed, communeNotNull, req, loc, txAborted, result, nSaves>>
  /\ UNCHANGED <<geoVars, normVars, raceVars, batchVars>>

\* _insert_skills_and_relations
InsertSkillsAndRelations == InsertSkillRows \/ InsertSkillLinks

insert_embedding_always(embeddings, offer_id, embedding_vector, model_name) ==
  IF embedding_vector = "" THEN embeddings
  ELSE embeddings \cup {[ embedding_id |-> NextId(embeddings, "embedding_id"),
                          offer_id     |-> offer_id,
                          embedding    |-> embedding_vector,
                          model_name   |-> model_name ]}

\* INSERT INTO job_embeddings ... ON CONFLICT (offer_id) DO UPDATE SET
\* embedding, model_name
insert_embedding(embeddings, offer_id, embedding_vector, model_name) ==
  LET conflict == {e \in embeddings : e.offer_id = offer_id}
  IN  IF embedding_vector = "" THEN embeddings
      ELSE IF conflict = {}
      THEN embeddings \cup {[ embedding_id |-> NextId(embeddings, "embedding_id"),
                              offer_id     |-> offer_id,
                              embedding    |-> embedding_vector,
                              model_name   |-> model_name ]}
      ELSE (embeddings \ conflict)
           \cup {[e EXCEPT !.embedding = embedding_vector, !.model_name = model_name] :
                   e \in conflict}

InsertEmbeddingEvenIfEmpty ==
  /\ pc = "embedding"
  /\ db' = [db EXCEPT !.job_embeddings =
              insert_embedding_always(@ \ {e \in @ : e.offer_id = loc.offer_id},
                                      loc.offer_id, "v0",
                                      Get(req.nlp.final, "embedding_model", ""))]
  /\ pc' = "commit"
  /\ hist' = Log("embedding")
  /\ UNCHANGED <<committed, communeNotNull, req, loc, txAborted, result, nSaves>>
  /\ UNCHANGED <<geoVars, normVars, raceVars, batchVars>>

InsertEmbedding ==
  /\ pc = "embedding"
  /\ db' = [db EXCEPT !.job_embeddings =
              insert_embedding(@, loc.offer_id,
                               Get(req.nlp.final, "embedding_vector", ""),
                               Get(req.nlp.final, "embedding_model", ""))]
  /\ pc' = "commit"
  /\ hist' = Log("embedding")
  /\ UNCHANGED <<committed, communeNotNull, req, loc, txAborted, result, nSaves>>
  /\ UNCHANGED <<geoVars, normVars, raceVars, batchVars>>

\* conn.commit() and the success return (lines 195-206)
Commit ==
  /\ pc = "commit"
  /\ committed' = db
  /\ result' = SuccessResult(loc.offer_id)
  /\ pc' = "idle"
  /\ hist' = Log("commit")
  /\ UNCHANGED <<db, communeNotNull, req, loc, txAborted, nSaves>>
  /\ UNCHANGED <<geoVars, normVars, raceVars, batchVars>>

\* except Exception (lines 208-216): rollback, close, failure result
ExceptionHandler(cause) ==
  /\ db' = committed
  /\ result' = FailureResult(cause)
  /\ pc' = "idle"
  /\ hist' = [hist EXCEPT !.cause = cause]
  /\ txAborted' = FALSE
  /\ UNCHANGED <<committed, communeNotNull, req, loc, nSaves>>
  /\ UNCHANGED <<geoVars, normVars, raceVars, batchVars>>

\* the step at pc sends a statement to the server
ExecutesStatement ==
  \/ pc \in {"source", "offer", "commit"}
  \/ pc = "date" /\ ParseIsoDate(Get(req.raw, "published_date", "")) # ""
  \/ pc = "category" /\ ProfileCategory \notin {"", "Généraliste"}
  \/ pc \in {"skills", "links"}
       /\ req.nlp.skills.all_tech_skills \o req.nlp.skills.soft_skills # <<>>
  \/ pc = "embedding" /\ Get(req.nlp.final, "embedding_vector", "") # ""

\* a statement raises on a connection that stays usable (constraint, timeout,
\* ...)
StatementFails ==
  /\ ExecutesStatement
  /\ ~txAborted
  /\ ExceptionHandler("statement_error")

\* a statement sent on a transaction the server has marked as failed raises
\* InFailedSqlTransaction
AbortedTransaction ==
  /\ ExecutesStatement
  /\ txAborted
  /\ ExceptionHandler("failed_transaction")

\* the INSERT violates NOT NULL on commune_id
NotNullViolation ==
  /\ pc = "offer"
  /\ communeNotNull /\ loc.commune_id = None
  /\ ExceptionHandler("not_null_commune")

\* what the caller gets when an exception leaves save_offer_to_database
EscapedException == [kind |-> "exception"]

\* a statement raises because the connection to the server is lost: the
\* except branch runs conn.rollback() on the broken connection, which raises
\* in turn, and that exception leaves the function.  The server discards the
\* open transaction.
ConnectionLost ==
  /\ ExecutesStatement
  /\ db' = committed
  /\ result' = EscapedException
  /\ pc' = "idle"
  /\ hist' = [hist EXCEPT !.cause = "connection_lost"]
  /\ txAborted' = FALSE
  /\ UNCHANGED <<committed, communeNotNull, req, loc, nSaves>>
  /\ UNCHANGED <<geoVars, normVars, raceVars, batchVars>>

Next ==
  \/ \E r \in Requests : Start(r)
  \/ CheckDuplicate
  \/ GetOrCreateSource
  \/ GetOrCreateDate
  \/ GetCommuneId
  \/ GetOrCreateJobCategory
  \/ InsertOrUpdateOffer
  \/ InsertSkillsAndRelations
  \/ InsertEmbedding
  \/ Commit
  \/ StatementFails
  \/ AbortedTransaction
  \/ NotNullViolation
  \/ ConnectionLost

Spec == Init /\ [][Next]_vars

(***************************************************************************)
(* GeoMatcher.find_commune_id on one long-lived matcher (the batch         *)
(* inserter keeps one for all its offers)                                  *)
(***************************************************************************)
MaxLookups == 2

SeteUpper == <<"S","È","T","E">>

\* the (city_name, postal_code) arguments of the calls
GeoInputs ==
  { <<(<<>>), "">>, <<(<<>>), "34200">>,
    <<Sete, "">>, <<Sete, "34200">>, <<Sete, "99999">>, <<SeteUpper, "34200">>,
    <<SaintDenis, "">>, <<SaintDenis, "93200">>, <<SaintDenis, "97400">>,
    <<SaintDenis, "99999">>,
    <<Paris, "">>, <<Paris, "75001">>, <<Ys, "99999">> }

CachePutOnlyLatest(c, key, value) == [k \in {key} |-> value]

CachePut(c, key, value) ==
  [k \in DOMAIN c \cup {key} |-> IF k = key THEN value ELSE c[k]]

FindCommuneIdCachesEmpty(city_name, postal_code, store_error) ==
  /\ nLookups < MaxLookups
  /\ nLookups' = nLookups + 1
  /\ LET key  == CacheKey(city_name, postal_code)
         call == [ city_name |-> city_name, postal_code |-> postal_code,
                   store_error |-> store_error,
                   returned |-> None, hit |-> FALSE, queried |-> FALSE,
                   tiers |-> <<>> ]
     IN  IF key \in DOMAIN cache
         THEN /\ geoCall' = [call EXCEPT !.returned = cache[key], !.hit = TRUE]
              /\ cache' = cache
         ELSE \E t \in ResolveTrace(clean_city_name(city_name), postal_code, store_error) :
                /\ geoCall' = [call EXCEPT !.returned = t.value, !.queried = TRUE,
                                           !.tiers = t.tiers]
                /\ cache' = CachePut(cache, key, t.value)
  /\ UNCHANGED <<saveVars, normVars, raceVars, batchVars>>

FindCommuneId(city_name, postal_code, store_error) ==
  /\ nLookups < MaxLookups
  /\ nLookups' = nLookups + 1
  /\ LET key  == CacheKey(city_name, postal_code)
         call == [ city_name |-> city_name, postal_code |-> postal_code,
                   store_error |-> store_error,
                   returned |-> None, hit |-> FALSE, queried |-> FALSE,
                   tiers |-> <<>> ]
     IN  IF city_name = <<>>
         THEN /\ geoCall' = call
              /\ cache' = cache
         ELSE IF key \in DOMAIN cache
         THEN /\ geoCall' = [call EXCEPT !.returned = cache[key], !.hit = TRUE]
              /\ cache' = cache
         ELSE \E t \in ResolveTrace(clean_city_name(city_name), postal_code, store_error) :
                /\ geoCall' = [call EXCEPT !.returned = t.value, !.queried = TRUE,
                                           !.tiers = t.tiers]
                /\ cache' = CachePut(cache, key, t.value)
  /\ UNCHANGED <<saveVars, normVars, raceVars, batchVars>>

NextGeo ==
  \E in \in GeoInputs : \E store_error \in BOOLEAN :
     FindCommuneId(in[1], in[2], store_error)

SpecGeo == Init /\ [][NextGeo]_vars

(***************************************************************************)
(* The city name normalizer on its own: clean_city_name and                *)
(* normalize_for_search applied to a city string and then to their own     *)
(* output                                                                  *)
(***************************************************************************)
MaxApply == 2

\* "<ville> <numero><ordinal> Arrondissement"
ArrondissementName(ville, numero, ordinal) ==
  ville \o <<" ">> \o numero \o ordinal \o <<" ">> \o <<"A","r","r","o","n","d","i","s","s","e","m","e","n","t">>

\* the French ordinal suffixes: 1er, 2e, 3ème
Ordinals == { <<"e","r">>, <<"e">>, <<"è","m","e">> }

ArrondissementForms ==
  { [ville |-> v, numero |-> n, ordinal |-> o] :
      v \in {Paris, <<"L","y","o","n">>}, n \in {<<"1">>, <<"3">>, <<"1","2">>}, o \in Ordinals }

\* the strings handed to the normalizer
NormInputs ==
  { <<>>, Sete, SeteUpper, SaintDenis, Paris, Ys,
    <<"7","5"," ","-"," ","P","a","r","i","s">>,
    <<" ","7","5"," ","-"," ","P","a","r","i","s">>,
    <<"S","a","i","n","t","-","É","t","i","e","n","n","e">>,
    <<"S","a","i","n","t","e","-","F","o","y">>,
    <<" "," ","g","r","e","n","o","b","l","e"," "," ">>,
    <<"L","'","I","s","l","e","-","A","d","a","m">>,
    <<"S","t","-","M","a","l","o">> }
  \cup {ArrondissementName(a.ville, a.numero, a.ordinal) : a \in ArrondissementForms}

InitNorm ==
  /\ InitSave /\ InitGeo /\ NoRace /\ NoBatch
  /\ rawCity \in NormInputs
  /\ cleaned = <<>>
  /\ searched = <<>>

\* the argument of the next application: the raw city, then the last output
Last(outputs) == IF outputs = <<>> THEN rawCity ELSE outputs[Len(outputs)]

CleanCityName ==
  /\ Len(cleaned) < MaxApply
  /\ cleaned' = Append(cleaned, clean_city_name(Last(cleaned)))
  /\ UNCHANGED <<rawCity, searched>>
  /\ UNCHANGED <<saveVars, geoVars, raceVars, batchVars>>

NormalizeForSearch ==
  /\ Len(searched) < MaxApply
  /\ searched' = Append(searched, normalize_for_search(Last(searched)))
  /\ UNCHANGED <<rawCity, cleaned>>
  /\ UNCHANGED <<saveVars, geoVars, raceVars, batchVars>>

NextNorm == CleanCityName \/ NormalizeForSearch

SpecNorm == InitNorm /\ [][NextNorm]_vars

(***************************************************************************)
(* The get-or-create helpers of two invocations running at the same time,  *)
(* each on its own connection (READ COMMITTED): _get_or_create_source,     *)
(* _get_or_create_date, _get_or_create_job_category, one statement at a    *)
(* time.  Both offers need the same three dimension rows.                  *)
(***************************************************************************)
DimTables == <<"dim_sources", "dim_dates", "dim_job_categories">>

\* the natural key both offers ask for: source_name, full_date, category_name
DimKey(d) == <<"france_travail", "2024-01-15", "Data Analyst">>[d]

At(d, step) == [dim |-> d, step |-> step]

\* after the helper of table d: the next helper, or the rest of the save
AfterDim(d) == IF d < Len(DimTables) THEN At(d + 1, "select") ELSE At(d, "done")

InitRace ==
  /\ InitSave /\ InitGeo /\ NoCity /\ NoBatch
  /\ dimUnique \in BOOLEAN
  /\ dimRows = {}
  /\ dimPending = [p \in Connections |-> {}]
  /\ dimPc = [p \in Connections |-> At(1, "select")]

SameKey(rows, d) == {r \in rows : r.dim = d /\ r.key = DimKey(d)}

\* SELECT <id> FROM <table> WHERE <natural key> = %s: committed rows only
SelectDimension(p) ==
  /\ dimPc[p].step = "select"
  /\ LET d == dimPc[p].dim
     IN  dimPc' = [dimPc EXCEPT ![p] = IF SameKey(dimRows, d) # {} THEN AfterDim(d)
                                       ELSE At(d, "insert")]
  /\ UNCHANGED <<dimUnique, dimRows, dimPending>>
  /\ UNCHANGED <<saveVars, geoVars, normVars, batchVars>>

\* INSERT INTO <table> ... RETURNING <id>, with no ON CONFLICT clause.  Under
\* a UNIQUE key the statement waits for an uncommitted row with the same key
\* and raises once such a row is committed; the exception ends the save in
\* its except branch.
InsertDimension(p) ==
  /\ dimPc[p].step = "insert"
  /\ LET d      == dimPc[p].dim
         others == UNION {dimPending[q] : q \in Connections \ {p}}
         row    == [ dim |-> d, key |-> DimKey(d),
                     id  |-> NextId({r \in dimRows \cup others : r.dim = d}, "id") ]
     IN  IF dimUnique /\ SameKey(dimRows, d) # {}
         THEN /\ dimPc' = [dimPc EXCEPT ![p] = At(d, "failed")]
              /\ dimPending' = [dimPending EXCEPT ![p] = {}]
         ELSE /\ ~(dimUnique /\ SameKey(others, d) # {})
              /\ dimPc' = [dimPc EXCEPT ![p] = At(d, "commit")]
              /\ dimPending' = [dimPending EXCEPT ![p] = @ \cup {row}]
  /\ UNCHANGED <<dimUnique, dimRows>>
  /\ UNCHANGED <<saveVars, geoVars, normVars, batchVars>>

\* conn.commit() right after the INSERT
CommitDimension(p) ==
  /\ dimPc[p].step = "commit"
  /\ dimRows' = dimRows \cup dimPending[p]
  /\ dimPending' = [dimPending EXCEPT ![p] = {}]
  /\ dimPc' = [dimPc EXCEPT ![p] = AfterDim(dimPc[p].dim)]
  /\ UNCHANGED dimUnique
  /\ UNCHANGED <<saveVars, geoVars, normVars, batchVars>>

NextRace ==
  \E p \in Connections :
     SelectDimension(p) \/ InsertDimension(p) \/ CommitDimension(p)

SpecRace == InitRace /\ [][NextRace]_vars

(***************************************************************************)
(* DBInserterV2: insert_batch calling insert_offer for each offer of a     *)
(* list, on one session and one long-lived GeoMatcher.  It writes the      *)
(* same tables; every commit is immediate, so db follows committed.        *)
(***************************************************************************)
MaxBatch == 2

\* a normalized offer as the collectors hand it over
Offer(external_id, title, location_city, location_postal_code) ==
  [ external_id          |-> external_id,
    title                |-> title,
    description          |-> "descr",
    url                  |-> "url",
    company_name         |-> "company",
    contract_type        |-> "CDI",
    source               |-> "france_travail",
    published_date       |-> "2024-01-15",
    location_city        |-> location_city,
    location_postal_code |-> location_postal_code ]

StoredOffer == Offer("e1", "Data Analyst H/F", Sete, "34200")

BatchOffers ==
  { StoredOffer,
    Offer("e2", "Comptable", SaintDenis, "93200"),
    Offer("e3", "Data Analyst H/F", Ys, "99999"),
    Offer("e4", "Comptable", <<" ">>, "34200"),
    Offer("e1", "Comptable", Ys, "") }

Batches == UNION {[1..n -> BatchOffers] : n \in 1..MaxBatch}

\* get_job_category_from_title: (category_name, category_code)
JobCategoryFromTitle(title) ==
  IF title = "Data Analyst H/F" THEN <<"Data Analyst", "WTTJ_DA">>
  ELSE <<"Autre", "OTHER">>

\* find_commune_id on a matcher whose cache is c: what it may return and the
\* cache it leaves
find_commune_id(c, city_name, postal_code, store_error) ==
  LET key == CacheKey(city_name, postal_code)
  IN  IF city_name = <<>> THEN {[returned |-> None, cache |-> c]}
      ELSE IF key \in DOMAIN c THEN {[returned |-> c[key], cache |-> c]}
      ELSE {[returned |-> t.value, cache |-> CachePut(c, key, t.value)] :
              t \in ResolveTrace(clean_city_name(city_name), postal_code, store_error)}

\* DBInserterV2.get_commune_id: the commune, the cache, and the location
\* appended to communes_not_found (<<>> when none is)
get_commune_id(c, offer, store_error) ==
  LET stripped    == Strip(Get(offer, "location_city", <<>>))
      postal_code == Get(offer, "location_postal_code", "")
  IN  IF stripped = <<>>
      THEN {[commune_id |-> None, cache |-> c, not_found |-> <<>>]}
      ELSE {[commune_id |-> f.returned, cache |-> f.cache,
             not_found  |-> IF f.returned = None THEN <<stripped, postal_code>>
                            ELSE <<>>] :
              f \in find_commune_id(c, stripped, postal_code, store_error)}

\* get_or_create_source, get_or_create_date, get_or_create_job_category:
\* the tables after the call (each INSERT is committed at once)
WithSource(tables, source_name) ==
  IF \E r \in tables.dim_sources : r.source_name = source_name THEN tables
  ELSE [tables EXCEPT !.dim_sources = @ \cup
          {[ source_id   |-> NextId(tables.dim_sources, "source_id"),
             source_name |-> source_name,
             source_type |-> IF source_name = "france_travail" THEN "api" ELSE "scraping",
             is_official |-> source_name = "france_travail" ]}]

WithDate(tables, iso_date) ==
  LET d == ParseIsoDate(iso_date)
  IN  IF d = "" \/ \E r \in tables.dim_dates : r.full_date = d THEN tables
      ELSE [tables EXCEPT !.dim_dates = @ \cup
              {[ date_id |-> NextId(tables.dim_dates, "date_id"), full_date |-> d ]}]

WithJobCategory(tables, title) ==
  LET cat == JobCategoryFromTitle(title)
  IN  IF \E r \in tables.dim_job_categories : r.category_code = cat[2] THEN tables
      ELSE [tables EXCEPT !.dim_job_categories = @ \cup
              {[ job_category_id |-> NextId(tables.dim_job_categories, "job_category_id"),
                 category_name   |-> cat[1],
                 category_code   |-> cat[2],
                 level           |-> 1 ]}]

\* the ids the three helpers return
DimensionIds(tables, offer) ==
  { [ source_id |-> s, date_id |-> d, job_category_id |-> j ] :
      s \in {r.source_id : r \in {q \in tables.dim_sources :
                                     q.source_name = offer.source}},
      d \in IF ParseIsoDate(offer.published_date) = "" THEN {None}
            ELSE {r.date_id : r \in {q \in tables.dim_dates :
                                      q.full_date = ParseIsoDate(offer.published_date)}},
      j \in {r.job_category_id : r \in {q \in tables.dim_job_categories :
                    q.category_code = JobCategoryFromTitle(offer.title)[2]}} }

\* the row of the INSERT INTO fact_job_offers
BatchOfferRow(tables, offer, ids, commune_id) ==
  [ offer_id        |-> NextId(tables.fact_job_offers, "offer_id"),
    external_id     |-> offer.external_id,
    source_id       |-> ids.source_id,
    date_id         |-> ids.date_id,
    commune_id      |-> commune_id,
    job_category_id |-> ids.job_category_id,
    title           |-> offer.title,
    description     |-> offer.description,
    url             |-> offer.url,
    company_name    |-> offer.company_name,
    contract_type   |-> offer.contract_type,
    published_date  |-> ParseIsoDate(offer.published_date) ]

insert_offer_dimensions_first(tables, c, offer, store_error, insert_fails) ==
  LET dims == WithJobCategory(WithDate(WithSource(tables, offer.source),
                                       offer.published_date), offer.title)
  IN  IF \E o \in tables.fact_job_offers : o.external_id = offer.external_id
      THEN {[ tables |-> dims, cache |-> c, returned |-> FALSE,
              branch |-> "duplicate", not_found |-> <<>> ]}
      ELSE UNION {
             IF g.commune_id = None
             THEN {[ tables |-> dims, cache |-> g.cache, returned |-> FALSE,
                     branch |-> "no_commune", not_found |-> g.not_found ]}
             ELSE IF insert_fails
             THEN {[ tables |-> dims, cache |-> g.cache, returned |-> FALSE,
                     branch |-> "error", not_found |-> <<>> ]}
             ELSE {[ tables |-> [dims EXCEPT !.fact_job_offers = @ \cup
                                    {BatchOfferRow(dims, offer, ids, g.commune_id)}],
                     cache |-> g.cache, returned |-> TRUE,
                     branch |-> "inserted", not_found |-> <<>> ] :
                     ids \in DimensionIds(dims, offer)}
             : g \in get_commune_id(c, offer, store_error) }

\* insert_offer: the tables and the cache it leaves, the boolean it returns,
\* and the branch that returned it.  insert_fails: the INSERT raises and the
\* except branch rolls back.
insert_offer(tables, c, offer, store_error, insert_fails) ==
  IF \E o \in tables.fact_job_offers : o.external_id = offer.external_id
  THEN {[ tables |-> tables, cache |-> c, returned |-> FALSE,
          branch |-> "duplicate", not_found |-> <<>> ]}
  ELSE LET dims == WithJobCategory(WithDate(WithSource(tables, offer.source),
                                            offer.published_date), offer.title)
       IN  UNION {
             IF g.commune_id = None
             THEN {[ tables |-> dims, cache |-> g.cache, returned |-> FALSE,
                     branch |-> "no_commune", not_found |-> g.not_found ]}
             ELSE IF insert_fails
             THEN {[ tables |-> dims, cache |-> g.cache, returned |-> FALSE,
                     branch |-> "error", not_found |-> <<>> ]}
             ELSE {[ tables |-> [dims EXCEPT !.fact_job_offers = @ \cup
                                    {BatchOfferRow(dims, offer, ids, g.commune_id)}],
                     cache |-> g.cache, returned |-> TRUE,
                     branch |-> "inserted", not_found |-> <<>> ] :
                     ids \in DimensionIds(dims, offer)}
             : g \in get_commune_id(c, offer, store_error) }

\* the tables an earlier run left: empty, or holding StoredOffer
EarlierRuns ==
  {EmptyTables}
  \cup {o.tables : o \in insert_offer(EmptyTables, EmptyCache, StoredOffer, FALSE, FALSE)}

InitBatch ==
  /\ committed \in EarlierRuns
  /\ db = committed
  /\ communeNotNull = FALSE
  /\ pc = "idle"
  /\ req = Request("e1", 1, "v1", Sete, "34200")
  /\ loc = NoLocals
  /\ txAborted = FALSE
  /\ result = NoResult
  /\ nSaves = 0
  /\ hist = NoHist
  /\ InitGeo /\ NoCity /\ NoRace
  /\ batch \in Batches
  /\ attempts = <<>>
  /\ stats = NoStats

InsertOfferCountsErrors ==
  /\ Len(attempts) < Len(batch)
  /\ LET i       == Len(attempts) + 1
         offer   == batch[i]
         earlier == {batch[k].external_id : k \in 1..(i - 1)}
     IN  \E store_error \in BOOLEAN, insert_fails \in BOOLEAN :
           \E out \in insert_offer(committed, cache, offer, store_error, insert_fails) :
              /\ committed' = out.tables
              /\ db' = out.tables
              /\ cache' = out.cache
              /\ attempts' = Append(attempts,
                                [ external_id |-> offer.external_id,
                                  returned    |-> out.returned,
                                  branch      |-> out.branch,
                                  not_found   |-> out.not_found ])
              /\ stats' = IF out.returned
                          THEN [stats EXCEPT !.inserted = @ + 1]
                          ELSE IF out.branch = "error"
                          THEN [stats EXCEPT !.errors = @ + 1]
                          ELSE IF offer.external_id \in earlier
                          THEN [stats EXCEPT !.duplicates = @ + 1]
                          ELSE [stats EXCEPT !.skipped = @ + 1]
  /\ UNCHANGED <<batch, geoCall, nLookups>>
  /\ UNCHANGED <<communeNotNull, pc, req, loc, txAborted, result, nSaves, hist>>
  /\ UNCHANGED <<normVars, raceVars>>

\* one turn of the loop of insert_batch: insert_offer and the counters
InsertOffer ==
  /\ Len(attempts) < Len(batch)
  /\ LET i       == Len(attempts) + 1
         offer   == batch[i]
         earlier == {batch[k].external_id : k \in 1..(i - 1)}
     IN  \E store_error \in BOOLEAN, insert_fails \in BOOLEAN :
           \E out \in insert_offer(committed, cache, offer, store_error, insert_fails) :
              /\ committed' = out.tables
              /\ db' = out.tables
              /\ cache' = out.cache
              /\ attempts' = Append(attempts,
                                [ external_id |-> offer.external_id,
                                  returned    |-> out.returned,
                                  branch      |-> out.branch,
                                  not_found   |-> out.not_found ])
              /\ stats' = IF out.returned
                          THEN [stats EXCEPT !.inserted = @ + 1]
                          ELSE IF offer.external_id \in earlier
                          THEN [stats EXCEPT !.duplicates = @ + 1]
                          ELSE [stats EXCEPT !.skipped = @ + 1]
  /\ UNCHANGED <<batch, geoCall, nLookups>>
  /\ UNCHANGED <<communeNotNull, pc, req, loc, txAborted, result, nSaves, hist>>
  /\ UNCHANGED <<normVars, raceVars>>

\* the end of insert_batch: the stats dictionary it returns
ReturnStats ==
  /\ batch # <<>>
  /\ Len(attempts) = Len(batch)
  /\ stats.total = 0
  /\ stats' = [stats EXCEPT
                 !.total = Len(batch),
                 !.communes_not_found =
                    Cardinality({attempts[k].not_found : k \in 1..Len(attempts)} \ {<<>>})]
  /\ UNCHANGED <<batch, attempts>>
  /\ UNCHANGED <<saveVars, geoVars, normVars, raceVars>>

NextBatch == InsertOffer \/ ReturnStats

SpecBatch == InitBatch /\ [][NextBatch]_vars

(***************************************************************************)
(* Properties                                                              *)
(***************************************************************************)
InTrail(step) == \E i \in 1..Len(hist.trail) : hist.trail[i] = step

Returned == pc = "idle" /\ result.kind # "none"

ExternalId == Get(req.raw, "external_id", "")

\* C1: when a step after the duplicate check raises, the call leaves the
\* database exactly as it found it (no dimension, offer, skill, link or
\* embedding row of this call remains) and returns the failure result.
C1_FailureRollsBackEverything ==
  (Returned /\ result.kind = "failure")
    => /\ committed = hist.atStart
       /\ db = hist.atStart
       /\ result.success = FALSE /\ result.duplicate = FALSE

\* C2: an offer whose city is empty, or whose commune the Geo Matcher did not
\* resolve, is not persisted: the call does not succeed and writes no offer,
\* skill, link or embedding row.
CommuneUnresolved ==
  \/ Strip(Get(req.raw, "location_city", <<>>)) = <<>>
  \/ InTrail("commune") /\ loc.commune_id = None

C2_UnresolvedCommuneRejected ==
  (Returned /\ CommuneUnresolved)
    => /\ result.kind # "success"
       /\ committed.fact_job_offers = hist.atStart.fact_job_offers
       /\ committed.dim_skills = hist.atStart.dim_skills
       /\ committed.fact_offer_skills = hist.atStart.fact_offer_skills
       /\ committed.job_embeddings = hist.atStart.job_embeddings

\* C3: once the duplicate check has found a stored embedding at or above the
\* threshold, the call is over with the duplicate result carrying that offer's
\* id, similarity and title, and no table differs from what it was at entry.
C3_DuplicateIsTerminalAndWritesNothing ==
  loc.duplicate_check # NoDuplicate
    => /\ pc = "idle"
       /\ result.kind = "duplicate"
       /\ result.success = FALSE /\ result.duplicate = TRUE
       /\ result.similarity >= SimilarityThreshold
       /\ \E je \in hist.atStart.job_embeddings :
          \E o \in hist.atStart.fact_job_offers :
            /\ o.offer_id = je.offer_id
            /\ result.existing_offer_id = o.offer_id
            /\ result.existing_title = o.title
            /\ result.similarity = Similarity(je.embedding, req.nlp.final.embedding_vector)
       /\ committed = hist.atStart
       /\ db = hist.atStart
       /\ hist.trail = <<"duplicate_check">>

C3_Witness ==
  /\ Returned /\ result.kind = "duplicate"
  /\ hist.atStart.fact_job_offers # {}

\* C4: the duplicate check is the first thing a call with an embedding does:
\* while it is pending no table has been read or written by the call, every
\* dimension or insert step comes after it, and a call rejected as a duplicate
\* (similarity 0.97 included) has run no dimension or insert step at all.
C4_DuplicateCheckBeforeDimensions ==
  /\ pc = "duplicate_check"
       => hist.trail = <<>> /\ db = hist.atStart /\ committed = hist.atStart
  /\ (req.nlp.final.embedding_vector # "" /\ hist.trail # <<>>)
       => hist.trail[1] = "duplicate_check"
  /\ result.kind = "duplicate"
       => /\ \A i \in 1..Len(hist.trail) :
               hist.trail[i] \notin {"source", "date", "commune", "category",
                                     "offer", "skills", "links", "embedding", "commit"}
          /\ committed = hist.atStart

C4_Witness ==
  /\ Returned /\ result.kind = "duplicate"
  /\ result.similarity = 970000
  /\ hist.trail = <<"duplicate_check">>
  /\ committed.dim_sources = hist.atStart.dim_sources

\* C5: a failure of the duplicate-check query alone never makes the call end
\* in a duplicate or failure result: unless some other statement fails, the
\* call resolves the dimensions and persists the offer.
C5_SearchFailureDoesNotBlock ==
  (Returned /\ hist.dupError # "none")
    => \/ result.kind = "success"
       \/ result.kind = "failure" /\ hist.cause \in {"statement_error", "not_null_commune"}

\* C6: a save whose external_id is already stored leaves the stored row's
\* mutable columns equal to the values supplied by this save (calls that end
\* in the failure result, whose transaction is rolled back, aside).
StoredAtEntry == \E o \in hist.atStart.fact_job_offers : o.external_id = ExternalId

C6_ResaveUpdatesMutableFields ==
  (Returned /\ result.kind # "failure" /\ StoredAtEntry)
    => \A o \in committed.fact_job_offers :
         o.external_id = ExternalId
           => \A c \in MutableColumns : o[c] = ProposedOffer(req, loc)[c]

\* C7: in the committed tables and inside every transaction, no two offers
\* share an external_id, no two sources a source_name, no two dates a
\* full_date, no two job categories a category_name.
UniqueBy(rows, key) == \A a, b \in rows : a[key] = b[key] => a = b

UniqueKeys(tables) ==
  /\ UniqueBy(tables.fact_job_offers, "external_id")
  /\ UniqueBy(tables.fact_job_offers, "offer_id")
  /\ UniqueBy(tables.dim_sources, "source_name")
  /\ UniqueBy(tables.dim_dates, "full_date")
  /\ UniqueBy(tables.dim_job_categories, "category_name")

C7_NaturalKeysUnique == UniqueKeys(committed) /\ UniqueKeys(db)

\* a successful save of an offer, source, date and category that all existed
C7_Witness ==
  /\ Returned /\ result.kind = "success"
  /\ StoredAtEntry
  /\ \E s \in hist.atStart.dim_sources : s.source_id = loc.source_id
  /\ \E d \in hist.atStart.dim_dates : d.date_id = loc.date_id
  /\ \E j \in hist.atStart.dim_job_categories : j.job_category_id = loc.job_category_id
  /\ Cardinality(committed.fact_job_offers) = Cardinality(hist.atStart.fact_job_offers)

\* C8: no step changes a column of a stored offer other than the mutable
\* ones: title, description and url (and every other insert-only column) of
\* a row keep their values when an upsert hits its external_id.
C8_ProvenanceColumnsInsertOnly ==
  [][ \A o \in db.fact_job_offers : \A n \in db'.fact_job_offers :
        n.external_id = o.external_id
          => \A c \in (DOMAIN o) \ MutableColumns : n[c] = o[c] ]_vars

\* the upsert has just updated a row whose title, description and url differ
\* from the ones supplied
C8_Witness ==
  /\ pc = "skills"
  /\ \E o \in db.fact_job_offers : \E p \in hist.atStart.fact_job_offers :
       /\ o.external_id = ExternalId /\ p.offer_id = o.offer_id
       /\ o.title # req.raw.title /\ o.title = p.title
       /\ o.description # req.raw.description /\ o.url # req.raw.url
       /\ o.description_cleaned = req.nlp.final.description_cleaned
       /\ o.description_cleaned # p.description_cleaned

\* C9: when the similarity query runs, a duplicate is reported exactly when
\* the largest similarity between the new vector and a stored embedding (of an
\* existing offer) is >= the threshold, and the verdict then carries that
\* largest similarity with the id and title of an offer that attains it.
StoredSimilarities ==
  { Similarity(je.embedding, req.nlp.final.embedding_vector) :
      je \in { e \in hist.atStart.job_embeddings :
                 \E o \in hist.atStart.fact_job_offers : o.offer_id = e.offer_id } }

MaxStoredSimilarity == SetMax(StoredSimilarities)

C9_VerdictIsMaxAgainstThreshold ==
  (InTrail("duplicate_check") /\ hist.dupError = "none")
    => /\ (loc.duplicate_check # NoDuplicate)
            <=> (StoredSimilarities # {} /\ MaxStoredSimilarity >= SimilarityThreshold)
       /\ loc.duplicate_check # NoDuplicate
            => /\ loc.duplicate_check.similarity = MaxStoredSimilarity
               /\ \E je \in hist.atStart.job_embeddings :
                  \E o \in hist.atStart.fact_job_offers :
                    /\ o.offer_id = je.offer_id
                    /\ o.offer_id = loc.duplicate_check.offer_id
                    /\ o.title = loc.duplicate_check.title
                    /\ Similarity(je.embedding, req.nlp.final.embedding_vector)
                         = MaxStoredSimilarity

\* a duplicate at exactly the threshold, the best of two stored embeddings,
\* the other one being at 0.949999
C9_Witness ==
  /\ Returned /\ result.kind = "duplicate"
  /\ result.similarity = SimilarityThreshold
  /\ StoredSimilarities = {SimilarityThreshold, SimilarityThreshold - 1}

\* C10: with the data store answering, find_commune_id on the long-lived
\* matcher returns what a matcher with an empty cache would return for the
\* same arguments.
C10_CacheNeverChangesResult ==
  (nLookups > 0 /\ ~geoCall.store_error)
    => geoCall.returned \in FindCold(geoCall.city_name, geoCall.postal_code, FALSE)

\* the last find_commune_id call went past the cache and the store answered
Resolved == nLookups > 0 /\ geoCall.queried /\ ~geoCall.store_error

\* C11: a key present in the cache keeps its entry and its value for ever,
\* and a call whose key is present returns the cached value without running
\* a tier or querying the store.
C11_CacheWriteOnce ==
  [][ /\ \A k \in DOMAIN cache : k \in DOMAIN cache' /\ cache'[k] = cache[k]
      /\ (/\ nLookups' # nLookups
          /\ geoCall'.city_name # <<>>
          /\ CacheKey(geoCall'.city_name, geoCall'.postal_code) \in DOMAIN cache)
         => /\ geoCall'.returned
                 = cache[CacheKey(geoCall'.city_name, geoCall'.postal_code)]
            /\ ~geoCall'.queried
            /\ geoCall'.tiers = <<>> ]_vars

\* a second call with a resolved key was served from the cache, with an
\* other key cached beside it
C11_Witness ==
  /\ nLookups = 2
  /\ geoCall.hit
  /\ geoCall.returned # None
  /\ ~geoCall.queried

\* C12: an error of the data store during find_commune_id reaches the caller
\* as an exception, so a call that returns None went through tiers that all
\* matched nothing.
C12_NoneMeansNoTierMatched ==
  (nLookups > 0 /\ geoCall.queried /\ geoCall.returned = None)
    => None \in ResolveTiers(clean_city_name(geoCall.city_name),
                             geoCall.postal_code, FALSE)

\* the communes whose name is the one the call asks for
SameName(city_name) ==
  {r \in Communes :
     SqlNormName(r.nom_commune) = normalize_for_search(clean_city_name(city_name))}

TierAnswers(n) ==
  LET city_clean == clean_city_name(geoCall.city_name)
  IN  IF n = 1 THEN Tier1(city_clean, normalize_for_search(city_clean),
                          geoCall.postal_code)
      ELSE IF n = 2 THEN Tier2(normalize_for_search(city_clean))
      ELSE find_commune(city_clean, geoCall.postal_code)

\* C14: the tiers run in the order 1 (only with a postal code), 2, 3; a tier
\* runs only when every tier before it matched nothing; the call returns the
\* commune of the last tier that ran, or None when tier 3 ran and matched
\* nothing.
C14_TiersInOrderFirstMatchWins ==
  Resolved =>
    LET tiers == geoCall.tiers
        n     == Len(tiers)
    IN  /\ n >= 1
        /\ tiers[1] = (IF geoCall.postal_code # "" THEN 1 ELSE 2)
        /\ \A i \in 1..(n - 1) :
             /\ tiers[i + 1] = tiers[i] + 1
             /\ None \in TierAnswers(tiers[i])
        /\ tiers[n] \in {1, 2, 3}
        /\ geoCall.returned \in TierAnswers(tiers[n])
        /\ geoCall.returned = None => tiers[n] = 3

\* tiers 1 and 2 matched nothing and the fuzzy lookup found the commune
C14_Witness ==
  /\ Resolved
  /\ geoCall.tiers = <<1, 2, 3>>
  /\ geoCall.returned # None

\* C15: a call with an empty city returns None, queries nothing and leaves
\* the cache as it was, whatever the postal code.
C15_EmptyCityReturnsNoneUntouched ==
  [][ (nLookups' # nLookups /\ geoCall'.city_name = <<>>)
        => /\ geoCall'.returned = None
           /\ ~geoCall'.queried
           /\ ~geoCall'.hit
           /\ geoCall'.tiers = <<>>
           /\ cache' = cache ]_vars

\* an empty city with a postal code, asked of a matcher whose cache holds
\* an entry
C15_Witness ==
  /\ nLookups = 2
  /\ geoCall.city_name = <<>>
  /\ geoCall.postal_code # ""
  /\ geoCall.returned = None
  /\ DOMAIN cache # {}

\* C16: applying clean_city_name to its own output changes nothing, and the
\* same for normalize_for_search.
C16_NormalizerIdempotent ==
  /\ \A i \in 2..Len(cleaned) : cleaned[i] = cleaned[1]
  /\ \A i \in 2..Len(searched) : searched[i] = searched[1]

\* C17: "<City> <N><ordinal> Arrondissement", for the ordinals er, e and
\* ème, is cleaned to "<CITY> NN" with the number padded to two digits.
C17_OrdinalArrondissementsRewritten ==
  \A a \in ArrondissementForms :
     (rawCity = ArrondissementName(a.ville, a.numero, a.ordinal) /\ cleaned # <<>>)
       => cleaned[1] = Upper(a.ville) \o <<" ">> \o Zfill2(a.numero)

\* both invocations are past their get-or-create helpers or have failed
RaceOver == \A p \in Connections : dimPc[p].step \in {"done", "failed"}

\* C18: when two invocations needing the same missing Source, Date and
\* JobCategory rows run at the same time, each natural key ends with exactly
\* one row and neither invocation fails.
C18_GetOrCreateRaceSafe ==
  RaceOver =>
    /\ \A d \in 1..Len(DimTables) : Cardinality(SameKey(dimRows, d)) = 1
    /\ \A p \in Connections : dimPc[p].step = "done"

\* C19: what is returned for an offer rejected as a duplicate differs from
\* what is returned for an offer rejected for an unresolved commune.
C19_RejectionsReportedDistinctly ==
  \A i, j \in 1..Len(attempts) :
     (attempts[i].branch = "duplicate" /\ attempts[j].branch = "no_commune")
       => attempts[i].returned # attempts[j].returned

\* the Embedding rows of the offer the last call returned
EmbeddingsOfResult(tables) ==
  {e \in tables.job_embeddings : e.offer_id = result.offer_id}

\* C20: there is at most one Embedding row per offer_id and each belongs to
\* a stored Offer row, in the committed tables and inside every transaction;
\* after a successful save that carried a vector, the offer's one row holds
\* that vector and its model name.
C20_OneEmbeddingPerOffer ==
  /\ \A tables \in {committed, db} :
       /\ UniqueBy(tables.job_embeddings, "offer_id")
       /\ \A e \in tables.job_embeddings :
            \E o \in tables.fact_job_offers : o.offer_id = e.offer_id
  /\ (Returned /\ result.kind = "success" /\ req.nlp.final.embedding_vector # "")
       => /\ EmbeddingsOfResult(committed) # {}
          /\ \A e \in EmbeddingsOfResult(committed) :
               /\ e.embedding = req.nlp.final.embedding_vector
               /\ e.model_name = req.nlp.final.embedding_model

\* a stored offer was saved again with another vector and another model
\* name, and its Embedding row now holds them
C20_Witness ==
  /\ Returned /\ result.kind = "success"
  /\ \E old \in hist.atStart.job_embeddings :
       /\ old.offer_id = result.offer_id
       /\ old.embedding # req.nlp.final.embedding_vector
       /\ old.model_name # req.nlp.final.embedding_model
       /\ \E e \in committed.job_embeddings :
            /\ e.embedding_id = old.embedding_id
            /\ e.embedding = req.nlp.final.embedding_vector
            /\ e.model_name = req.nlp.final.embedding_model

\* the skill names of the running call, technical then soft
SkillNames == req.nlp.skills.all_tech_skills \o req.nlp.skills.soft_skills

Range(seq) == {seq[i] : i \in 1..Len(seq)}

\* C21: no two Skill rows share a skill_name and no two Offer-Skill rows
\* share (offer_id, skill_id), in the committed tables and inside every
\* transaction, whatever repetitions the skill lists carry.
C21_SkillsAndLinksUnique ==
  \A tables \in {committed, db} :
     /\ UniqueBy(tables.dim_skills, "skill_name")
     /\ UniqueBy(tables.dim_skills, "skill_id")
     /\ \A a, b \in tables.fact_offer_skills :
          (a.offer_id = b.offer_id /\ a.skill_id = b.skill_id) => a = b

\* a successful save whose lists repeat a name, within the technical list
\* and across both lists, for an offer that was already linked to that skill
C21_Witness ==
  /\ Returned /\ result.kind = "success"
  /\ \E i, j \in 1..Len(req.nlp.skills.all_tech_skills) :
       /\ i # j
       /\ req.nlp.skills.all_tech_skills[i] = req.nlp.skills.all_tech_skills[j]
       /\ req.nlp.skills.all_tech_skills[i] \in Range(req.nlp.skills.soft_skills)
       /\ \E s \in hist.atStart.dim_skills :
            /\ s.skill_name = req.nlp.skills.all_tech_skills[i]
            /\ \E k \in hist.atStart.fact_offer_skills :
                 k.offer_id = result.offer_id /\ k.skill_id = s.skill_id

\* C22: a call that is over has returned exactly one of the three results,
\* success, duplicate or failure, each with its fields; no exception has
\* left the function.
C22_AlwaysOneOfThreeResults ==
  Returned =>
    \/ /\ result.kind = "success"
       /\ result.success = TRUE /\ result.duplicate = FALSE
       /\ result.offer_id # None
    \/ /\ result.kind = "duplicate"
       /\ result.success = FALSE /\ result.duplicate = TRUE
       /\ result.existing_offer_id # None
    \/ /\ result.kind = "failure"
       /\ result.success = FALSE /\ result.duplicate = FALSE

\* the last n steps of the running call
LastSteps(n) ==
  IF Len(hist.trail) < n THEN <<>>
  ELSE SubSeq(hist.trail, Len(hist.trail) - n + 1, Len(hist.trail))

\* C23: a call that returned success ran, last and in this order, the offer
\* upsert, the skill rows, the offer-skill links, the embedding upsert and
\* the commit, each once; the committed tables then hold the Offer row, a
\* Skill row and a link for every extracted skill name, and the Embedding
\* row when a vector was supplied.
C23_SuccessPathOrder ==
  (Returned /\ result.kind = "success")
    => /\ LastSteps(5) = <<"offer", "skills", "links", "embedding", "commit">>
       /\ \A i \in 1..(Len(hist.trail) - 5) :
            hist.trail[i] \notin {"offer", "skills", "links", "embedding", "commit"}
       /\ committed = db
       /\ \E o \in committed.fact_job_offers :
            o.offer_id = result.offer_id /\ o.external_id = ExternalId
       /\ \A name \in Range(SkillNames) :
            \E s \in committed.dim_skills :
               /\ s.skill_name = name
               /\ \E k \in committed.fact_offer_skills :
                    k.offer_id = result.offer_id /\ k.skill_id = s.skill_id
       /\ req.nlp.final.embedding_vector # ""
            => \E e \in committed.job_embeddings :
                 /\ e.offer_id = result.offer_id
                 /\ e.embedding = req.nlp.final.embedding_vector

\* a success for a new offer with skills and a vector
C23_Witness ==
  /\ Returned /\ result.kind = "success"
  /\ ~StoredAtEntry
  /\ SkillNames # <<>>
  /\ req.nlp.final.embedding_vector # ""
  /\ hist.atStart.fact_job_offers # {}

\* C24: when the scraped record carries a postal code, the find_commune_id
\* call of the save receives it, and tier 1 is the first tier it runs.
C24_PostalCodeReachesMatcher ==
  (hist.lookup.called /\ Get(req.raw, "location_postal_code", "") # "")
    => /\ hist.lookup.postal_code = Get(req.raw, "location_postal_code", "")
       /\ hist.lookup.tiers # <<>> => hist.lookup.tiers[1] = 1

\* C25: when a postal code is supplied and no commune with that postal code
\* has the name, the call goes on to the name-only tier and returns the most
\* populated commune of that name, whatever its postal code.
C25_WrongPostalFallsBackToName ==
  (/\ Resolved
   /\ geoCall.postal_code # ""
   /\ TierAnswers(1) = {None}
   /\ SameName(geoCall.city_name) # {})
    => /\ geoCall.tiers = <<1, 2>>
       /\ \E a \in SameName(geoCall.city_name) :
            /\ geoCall.returned = a.commune_id
            /\ \A b \in SameName(geoCall.city_name) :
                 \/ b.population = PopNull
                 \/ (a.population # PopNull /\ a.population >= b.population)

\* the name-only tier returned the most populated of several namesakes, and
\* its postal code is not the one supplied
C25_Witness ==
  /\ Resolved
  /\ geoCall.postal_code # ""
  /\ geoCall.tiers = <<1, 2>>
  /\ \E a, b \in SameName(geoCall.city_name) :
       /\ geoCall.returned = a.commune_id
       /\ a.code_postal # geoCall.postal_code
       /\ b.population # PopNull /\ a.population > b.population

\* the running or last call carries no embedding vector
NoVector == nSaves > 0 /\ Get(req.nlp.final, "embedding_vector", "") = ""

\* C26: a call without an embedding vector runs no duplicate check (its
\* first step is the source dimension), never returns the duplicate result,
\* and leaves the Embedding table as it found it; when it returns success
\* the offer is stored.
C26_NoVectorNoCheckNoEmbedding ==
  NoVector =>
    /\ ~InTrail("duplicate_check")
    /\ hist.trail # <<>> => hist.trail[1] = "source"
    /\ loc.duplicate_check = NoDuplicate
    /\ result.kind # "duplicate"
    /\ db.job_embeddings = hist.atStart.job_embeddings
    /\ committed.job_embeddings = hist.atStart.job_embeddings
    /\ (Returned /\ result.kind = "success")
         => \E o \in committed.fact_job_offers : o.external_id = ExternalId

\* an offer without a vector was stored while the Embedding table held a
\* row, for a new offer and no row was added
C26_Witness ==
  /\ NoVector
  /\ Returned /\ result.kind = "success"
  /\ ~StoredAtEntry
  /\ committed.job_embeddings # {}
  /\ \A e \in committed.job_embeddings : e.offer_id # result.offer_id

\* the offer insert_offer is about to receive is already stored
NextOfferStored ==
  /\ Len(attempts) < Len(batch)
  /\ \E o \in committed.fact_job_offers :
       o.external_id = batch[Len(attempts) + 1].external_id

\* C27: insert_offer on an offer whose external_id is stored returns False
\* and changes nothing: every table keeps its rows, and the matcher's cache
\* shows that no lookup ran.
C27_StoredOfferLeftAlone ==
  [][ (NextOfferStored /\ Len(attempts') = Len(attempts) + 1)
        => /\ attempts'[Len(attempts')].returned = FALSE
           /\ attempts'[Len(attempts')].branch = "duplicate"
           /\ committed' = committed
           /\ db' = db
           /\ cache' = cache ]_vars

\* a stored offer came again with another title, whose category has no row:
\* it was turned away and the category is still missing
C27_Witness ==
  /\ attempts # <<>>
  /\ attempts[Len(attempts)].branch = "duplicate"
  /\ attempts[Len(attempts)].returned = FALSE
  /\ \E o \in committed.fact_job_offers :
       /\ o.external_id = batch[Len(attempts)].external_id
       /\ o.title # batch[Len(attempts)].title
  /\ \A j \in committed.dim_job_categories :
       j.category_code # JobCategoryFromTitle(batch[Len(attempts)].title)[2]

\* every name of the offer's stored skills_extracted has a Skill row linked
\* to the offer
SkillsLinked(tables) ==
  \A o \in tables.fact_job_offers : \A name \in Range(o.skills_extracted) :
     \E s \in tables.dim_skills :
        /\ s.skill_name = name
        /\ \E k \in tables.fact_offer_skills :
             k.offer_id = o.offer_id /\ k.skill_id = s.skill_id

\* C28: in the committed tables every skill name of every offer's stored
\* skills_extracted has a Skill row and a link to that offer, and no step
\* removes a committed link.
C28_StoredSkillsAreLinked ==
  /\ [] SkillsLinked(committed)
  /\ [][ committed.fact_offer_skills \subseteq committed'.fact_offer_skills ]_vars

\* an offer was saved again with fewer skills: its new names are linked and
\* a link of the earlier save, to a name it no longer lists, is still there
C28_Witness ==
  /\ Returned /\ result.kind = "success"
  /\ StoredAtEntry
  /\ SkillNames # <<>>
  /\ \E k \in committed.fact_offer_skills : \E s \in committed.dim_skills :
       /\ k.offer_id = result.offer_id
       /\ k.skill_id = s.skill_id
       /\ s.skill_name \notin Range(SkillNames)

\* C29: insert_batch hands the offers to insert_offer one by one in list
\* order, whatever each attempt returned; every attempt is counted once under
\* inserted, duplicates or skipped, errors stays 0, and the stats it returns
\* cover the whole list: inserted + duplicates + skipped = total.
C29_BatchCountsAddUp ==
  /\ Len(attempts) <= Len(batch)
  /\ \A i \in 1..Len(attempts) : attempts[i].external_id = batch[i].external_id
  /\ stats.inserted + stats.duplicates + stats.skipped = Len(attempts)
  /\ stats.inserted = Cardinality({i \in 1..Len(attempts) : attempts[i].returned})
  /\ stats.errors = 0
  /\ stats.total # 0
       => /\ Len(attempts) = Len(batch)
          /\ stats.total = Len(batch)
          /\ stats.inserted + stats.duplicates + stats.skipped = stats.total

\* the stats of a list whose first offer failed in its INSERT and whose
\* second offer was inserted
C29_Witness ==
  /\ stats.total = 2
  /\ attempts[1].branch = "error"
  /\ attempts[2].branch = "inserted"

\* the Skill rows of skills that carry the name
SkillRowsNamed(skills, name) == {s \in skills : s.skill_name = name}

\* no step changes a Skill row whose name is still stored after it
SkillRowsKept(before, after) ==
  \A s \in before : SkillRowsNamed(after, s.skill_name) \subseteq {s}

\* once the two insertion loops have run, a name of both lists that was not
\* stored when the call began has the category "technical"
BothListsStoredTechnical ==
  pc \in {"links", "embedding", "commit"}
    => \A name \in Range(req.nlp.skills.all_tech_skills)
                     \cap Range(req.nlp.skills.soft_skills) :
          SkillRowsNamed(hist.atStart.dim_skills, name) = {}
            => /\ SkillRowsNamed(db.dim_skills, name) # {}
               /\ \A s \in SkillRowsNamed(db.dim_skills, name) :
                    s.skill_category = "technical"

\* C30: a Skill row keeps the category of its first insertion: no step of a
\* save changes or removes a committed Skill row, nor a row of the open
\* transaction whose name stays stored, whatever category the running call
\* lists the name under; and a name the call lists as technical and as soft,
\* not stored before, is stored as technical.
C30_SkillCategoryFixedAtFirstInsert ==
  /\ []BothListsStoredTechnical
  /\ [][ /\ committed.dim_skills \subseteq committed'.dim_skills
         /\ SkillRowsKept(db.dim_skills, db'.dim_skills) ]_vars

\* the insertion loops have run for a call that lists "sql" as technical only
\* while the row stored by an earlier save is soft, and the row is as it was
C30_Witness ==
  /\ pc = "links"
  /\ "sql" \in Range(req.nlp.skills.all_tech_skills)
  /\ "sql" \notin Range(req.nlp.skills.soft_skills)
  /\ \E s \in committed.dim_skills :
       /\ s.skill_name = "sql"
       /\ s.skill_category = "soft"
       /\ s \in db.dim_skills

====
